---------------------------- MODULE Spec2Model ----------------------------
(***************************************************************************)
(* A model of pyscses.site.Site (src/pyscses/site.py) and of the grid      *)
(* lookup helpers of src/project/practice.py.                              *)
(*                                                                         *)
(* Numbers.  Python floats are modelled as exact rationals [n, d] in       *)
(* lowest terms, so that the algebra of the occupation formulas is exact.  *)
(* Units are chosen so that every Boltzmann factor is a power of two:      *)
(* energies are counted in units of boltzmann_eV * T0 * ln(2) / 2 and      *)
(* temperatures in units of T0, hence                                      *)
(*     exp(-E / (boltzmann_eV * temp)) = 2 ^ (-(2 * E) / temp).            *)
(*                                                                         *)
(* Domain.  Labels are unique inside every list of species and inside      *)
(* every site-data record (spec section 3), temperatures are positive and  *)
(* (phi, temp) never makes the occupation denominator of a site with       *)
(* mobile defects zero (spec sections 3 and 7 leave both to the caller).   *)
(***************************************************************************)
EXTENDS Integers, Sequences, FiniteSets, TLC

VARIABLES
    site,       \* the Site built by this session, or NoSite
    op,         \* name of the last operation called
    args,       \* its arguments
    result,     \* its outcome: Ok(value) or Raise(exception)
    warnings    \* warning categories emitted by the last operation

vars == <<site, op, args, result, warnings>>

---------------------------------------------------------------------------
(* Bounds of the model *)

\* longest list of defect species / energies / scaling factors passed in
MaxDefects == 2

\* longest grid handed to closest_index
MaxLen == 3

\* largest grid coordinate
MaxVal == 3

---------------------------------------------------------------------------
(* Exact rational arithmetic standing for Python float arithmetic *)

Abs(a) == IF a < 0 THEN -a ELSE a

RECURSIVE GCD(_, _)
GCD(a, b) == IF b = 0 THEN a ELSE GCD(b, a % b)

\* the rational n/d (d # 0) in lowest terms with a positive denominator
Q(n, d) ==
    LET g == GCD(Abs(n), Abs(d))
        s == IF d < 0 THEN -1 ELSE 1
    IN  [n |-> (s * n) \div g, d |-> (s * d) \div g]

I(k) == [n |-> k, d |-> 1]

RAdd(a, b) == Q(a.n * b.d + b.n * a.d, a.d * b.d)
RSub(a, b) == Q(a.n * b.d - b.n * a.d, a.d * b.d)
RMul(a, b) == Q(a.n * b.n, a.d * b.d)
\* true division; the caller guarantees b # 0
RDiv(a, b) == Q(a.n * b.d, a.d * b.n)

RECURSIVE Pow2(_)
Pow2(k) == IF k = 0 THEN 1 ELSE 2 * Pow2(k - 1)

\* 2 ^ k for any integer k
Exp2(k) == IF k >= 0 THEN I(Pow2(k)) ELSE Q(1, Pow2(-k))

\* Python's sum() over a list of floats
RECURSIVE SumSeq(_)
SumSeq(s) == IF s = <<>> THEN I(0) ELSE RAdd(Head(s), SumSeq(Tail(s)))

\* the elements of a sequence
Range(s) == {s[i] : i \in DOMAIN s}

\* all sequences over S of length at most n
SeqsUpTo(S, n) == UNION {[1..k -> S] : k \in 0..n}

\* the label column of a list of labelled objects
Labels(s) == [i \in DOMAIN s |-> s[i].label]

\* no label occurs twice
UniqueLabels(s) == \A i, j \in DOMAIN s : s[i].label = s[j].label => i = j

---------------------------------------------------------------------------
(* Outcomes of a call *)

Ok(v) == [kind |-> "ok", val |-> v]
Raise(e) == [kind |-> "raise", exc |-> e]

NoSite == [none |-> TRUE]
NoArgs == [none |-> TRUE]

---------------------------------------------------------------------------
(* Physical constants, in model units *)

\* pyscses.constants.fundamental_charge
fundamental_charge == 2

---------------------------------------------------------------------------
(* DefectSpecies descriptors the callers choose from *)

DefectSpecies(l, v, m, eq) ==
    [label |-> l, valence |-> v, mole_fraction |-> m, mobility |-> 1,
     can_equilibrate |-> eq]

Catalog ==
    { DefectSpecies("A", 1, Q(1, 4), TRUE),
      DefectSpecies("B", -1, Q(1, 4), FALSE),
      DefectSpecies("C", 2, Q(1, 2), TRUE) }

\* lists of descriptors with pairwise distinct labels
SpeciesLists(n) == {s \in SeqsUpTo(Catalog, n) : UniqueLabels(s)}

Energies == {0, 1}
ScalingFactors == {1, 2}
Valences == {0, 1}
SaturationParameters == {Q(1, 2), I(1)}
Phis == {-1, 0, 1}
Temps == {1, 2}

\* the scaling argument: None, or a sequence of factors
None == [given |-> FALSE, vals |-> <<>>]
Some(s) == [given |-> TRUE, vals |-> s]
ScalingArgs == {None} \cup {Some(s) : s \in SeqsUpTo(ScalingFactors, MaxDefects)}

---------------------------------------------------------------------------
(* DefectAtSite *)

\* one DefectAtSite; id is the identity of the instance (its position in
\* the order of creation), the back-reference to the Site is left out
DefectAtSite(id, d, e) ==
    [id |-> id, label |-> d.label, valence |-> d.valence,
     mole_fraction |-> d.mole_fraction, mobility |-> d.mobility,
     energy |-> e, can_equilibrate |-> d.can_equilibrate]

\* exp(-(energy + valence * fundamental_charge * phi) / (boltzmann_eV * temp))
boltzmann_factor(d, phi, temp) ==
    Exp2(-((2 * (d.energy + d.valence * fundamental_charge * phi)) \div temp))

---------------------------------------------------------------------------
(* Site.__init__ *)

Min(a, b) == IF a < b THEN a ELSE b

\* zip(defect_species, defect_energies) turned into DefectAtSite objects
BuildDefects(defect_species, defect_energies) ==
    [i \in 1..Min(Len(defect_species), Len(defect_energies)) |->
        DefectAtSite(i, defect_species[i], defect_energies[i])]

\* truth value of the scaling argument: None and the empty sequence are false
Truthy(scaling) == scaling.given /\ Len(scaling.vals) > 0

\* np.ones_like(defect_energies, dtype=float)
OnesLike(defect_energies) == [i \in DOMAIN defect_energies |-> 1]

IsFixed(d) == ~d.can_equilibrate
IsMobile(d) == d.can_equilibrate

MoleFractions(ds) == [i \in DOMAIN ds |-> ds[i].mole_fraction]

\* Site.calculate_fixed_charge
calculate_fixed_charge(valence, defects) ==
    LET fixed == SelectSeq(defects, IsFixed)
        terms == [i \in DOMAIN fixed |->
                    RMul(fixed[i].mole_fraction, I(fixed[i].valence))]
    IN  RMul(RAdd(I(valence), SumSeq(terms)), I(fundamental_charge))

\* the Site object once both length checks have passed
NewSite(label, x, defect_species, defect_energies, scaling, valence, saturation_parameter) ==
    LET defects == BuildDefects(defect_species, defect_energies)
        fixed == SelectSeq(defects, IsFixed)
    IN  [label |-> label,
         x |-> x,
         defect_energies |-> defect_energies,
         defect_species |-> defect_species,
         defects |-> defects,
         scaling |-> IF Truthy(scaling) THEN scaling.vals
                     ELSE OnesLike(defect_energies),
         grid_point |-> "None",
         valence |-> valence,
         saturation_parameter |-> saturation_parameter,
         fixed_defects |-> fixed,
         mobile_defects |-> SelectSeq(defects, IsMobile),
         alpha |-> RSub(saturation_parameter, SumSeq(MoleFractions(fixed))),
         fixed_charge |-> calculate_fixed_charge(valence, defects)]

\* Site(label, x, defect_species, defect_energies, scaling, valence,
\* saturation_parameter): the new Site, or the ValueError of a length check
SiteInit(label, x, defect_species, defect_energies, scaling, valence, saturation_parameter) ==
    IF Len(defect_species) # Len(defect_energies)
    THEN Raise("ValueError")
    ELSE IF Truthy(scaling) /\ Len(defect_species) # Len(scaling.vals)
    THEN Raise("ValueError")
    ELSE Ok(NewSite(label, x, defect_species, defect_energies, scaling,
                    valence, saturation_parameter))

---------------------------------------------------------------------------
(* Site.from_site_data *)

\* one entry of SiteData.defect_data
DefectData(l, e) == [label |-> l, energy |-> e]

SiteData(label, x, valence, defect_data) ==
    [label |-> label, x |-> x, valence |-> valence, defect_data |-> defect_data]

\* [d.energy for d in site_data.defect_data]
EnergiesOf(defect_data) == [i \in DOMAIN defect_data |-> defect_data[i].energy]

\* from_site_data passing every available species on, filtered or not
from_site_data_unfiltered(site_data, defect_species) ==
    LET defect_species_labels == {d.label : d \in Range(site_data.defect_data)}
        defect_species_to_pass_labels == {d.label : d \in Range(defect_species)}
    IN  IF \E label \in defect_species_labels :
                label \notin defect_species_to_pass_labels
        THEN Raise("ValueError")
        ELSE SiteInit(site_data.label, site_data.x, defect_species,
                      EnergiesOf(site_data.defect_data), None,
                      site_data.valence, I(1))

\* Site.from_site_data(site_data, defect_species): the new Site or a ValueError
from_site_data(site_data, defect_species) ==
    LET defect_species_labels == {d.label : d \in Range(site_data.defect_data)}
        Wanted(ds) == ds.label \in defect_species_labels
        defect_species_to_pass == SelectSeq(defect_species, Wanted)
        defect_species_to_pass_labels ==
            {d.label : d \in Range(defect_species_to_pass)}
    IN  IF \E label \in defect_species_labels :
                label \notin defect_species_to_pass_labels
        THEN Raise("ValueError")
        ELSE SiteInit(site_data.label, site_data.x, defect_species_to_pass,
                      EnergiesOf(site_data.defect_data), None,
                      site_data.valence, I(1))

---------------------------------------------------------------------------
(* Site.defect_with_label *)

\* a fresh object equal to the first match, field by field
CopyOfFirstWithLabel(defects, label) ==
    LET i == CHOOSE k \in DOMAIN defects : defects[k].label = label
    IN  [defects[i] EXCEPT !.id = 0]

\* next(d for d in defects if d.label == label)
FirstWithLabel(defects, label) ==
    defects[CHOOSE i \in DOMAIN defects :
                /\ defects[i].label = label
                /\ \A j \in 1..(i - 1) : defects[j].label # label]

defect_with_label(s, label) ==
    IF label \notin Range(Labels(s.defects))
    THEN Raise("LabelError")
    ELSE Ok(FirstWithLabel(s.defects, label))

---------------------------------------------------------------------------
(* Site.probabilities and Site.mobile_defect_probabilities *)

\* {d.label: d.boltzmann_factor(phi, temp) for d in self.mobile_defects};
\* a later entry with the same label replaces an earlier one
RECURSIVE BoltzmannDict(_, _, _)
BoltzmannDict(mobile, phi, temp) ==
    IF mobile = <<>> THEN <<>>
    ELSE LET n == Len(mobile)
             d == mobile[n]
             prev == BoltzmannDict(SubSeq(mobile, 1, n - 1), phi, temp)
         IN  [l \in DOMAIN prev \cup {d.label} |->
                IF l = d.label THEN boltzmann_factor(d, phi, temp) ELSE prev[l]]

boltzmann_factors(s, phi, temp) == BoltzmannDict(s.mobile_defects, phi, temp)

\* alpha + sum(mole_fraction * (boltzmann_factor - 1) over mobile_defects)
denominator(s, phi, temp) ==
    LET bf == boltzmann_factors(s, phi, temp)
        mob == s.mobile_defects
        terms == [i \in DOMAIN mob |->
                    RMul(mob[i].mole_fraction, RSub(bf[mob[i].label], I(1)))]
    IN  RAdd(s.alpha, SumSeq(terms))

\* the numerator without its factor alpha
MobileProbabilityWithoutAlpha(s, d, phi, temp) ==
    LET bf == boltzmann_factors(s, phi, temp)
        numerator == RMul(d.mole_fraction, bf[d.label])
    IN  RDiv(numerator, denominator(s, phi, temp))

\* alpha * mole_fraction * boltzmann_factor / denominator of a mobile defect
MobileProbability(s, d, phi, temp) ==
    LET bf == boltzmann_factors(s, phi, temp)
        numerator == RMul(RMul(s.alpha, d.mole_fraction), bf[d.label])
    IN  RDiv(numerator, denominator(s, phi, temp))

\* the charge contribution of a fixed defect stored in place of its fraction
FixedProbabilityAsCharge(d) == RMul(d.mole_fraction, I(d.valence))

\* value stored for a fixed defect by Site.probabilities
FixedProbability(d) == d.mole_fraction

\* the loop of Site.probabilities over the first k defects
RECURSIVE ProbabilitiesLoop(_, _, _, _)
ProbabilitiesLoop(s, phi, temp, k) ==
    IF k = 0 THEN <<>>
    ELSE LET d == s.defects[k]
             prev == ProbabilitiesLoop(s, phi, temp, k - 1)
             p == IF ~d.can_equilibrate THEN FixedProbability(d)
                  ELSE MobileProbability(s, d, phi, temp)
         IN  [l \in DOMAIN prev \cup {d.label} |->
                IF l = d.label THEN p ELSE prev[l]]

probabilities(s, phi, temp) == ProbabilitiesLoop(s, phi, temp, Len(s.defects))

\* the loop of Site.mobile_defect_probabilities over the first k defects
RECURSIVE MobileLoop(_, _, _, _)
MobileLoop(s, phi, temp, k) ==
    IF k = 0 THEN <<>>
    ELSE LET d == s.defects[k]
             prev == MobileLoop(s, phi, temp, k - 1)
         IN  IF d.can_equilibrate
             THEN [l \in DOMAIN prev \cup {d.label} |->
                    IF l = d.label THEN MobileProbability(s, d, phi, temp)
                    ELSE prev[l]]
             ELSE prev

mobile_defect_probabilities(s, phi, temp) == MobileLoop(s, phi, temp, Len(s.defects))

\* the values listed from the last defect to the first
ListInReverseOrder(probabilities_dict, defects) ==
    [i \in DOMAIN defects |->
        probabilities_dict[defects[Len(defects) + 1 - i].label]]

\* [probabilities_dict[d.label] for d in self.defects]
ListInDefectOrder(probabilities_dict, defects) ==
    [i \in DOMAIN defects |-> probabilities_dict[defects[i].label]]

probabilities_as_list(s, phi, temp) ==
    ListInDefectOrder(probabilities(s, phi, temp), s.defects)

\* the caller's obligation: a site with mobile defects is only evaluated
\* where its occupation denominator is not zero
WellPosed(s, phi, temp) ==
    s.mobile_defects = <<>> \/ denominator(s, phi, temp).n # 0

---------------------------------------------------------------------------
(* Site.charge and Site.charge_from_mobile_defects *)

\* float(a) of a one-dimensional array: only a one-element array converts,
\* any other length raises TypeError
Float(a) == IF Len(a) = 1 THEN Ok(a[1]) ELSE Raise("TypeError")

\* sum([p[d.label] * d.valence for d in defects]), or the KeyError of a
\* label that p does not hold
WeightedValences(p, defects) ==
    IF \E i \in DOMAIN defects : defects[i].label \notin DOMAIN p
    THEN Raise("KeyError")
    ELSE Ok(SumSeq([i \in DOMAIN defects |->
                        RMul(p[defects[i].label], I(defects[i].valence))]))

\* (total * scaling + valence) * fundamental_charge, element by element
ChargeArray(total, scaling, valence) ==
    [i \in DOMAIN scaling |->
        RMul(RAdd(RMul(total, I(scaling[i])), I(valence)), I(fundamental_charge))]

charge(s, phi, temp) ==
    LET w == WeightedValences(probabilities(s, phi, temp), s.defects)
    IN  IF w.kind = "raise" THEN w
        ELSE Float(ChargeArray(w.val, s.scaling, s.valence))

\* total * scaling * fundamental_charge, element by element
MobileChargeArray(total, scaling) ==
    [i \in DOMAIN scaling |->
        RMul(RMul(total, I(scaling[i])), I(fundamental_charge))]

charge_from_mobile_defects(s, phi, temp) ==
    LET w == WeightedValences(mobile_defect_probabilities(s, phi, temp), s.defects)
    IN  IF w.kind = "raise" THEN w
        ELSE Float(MobileChargeArray(w.val, s.scaling))

---------------------------------------------------------------------------
(* The session *)

Init ==
    /\ site = NoSite
    /\ op = "start"
    /\ args = NoArgs
    /\ result = Ok(<<>>)
    /\ warnings = <<>>

\* site = Site("O", 0, defect_species, defect_energies, scaling, valence,
\* saturation_parameter), the first call of the session; the variable is
\* bound only if no error is raised, and an error ends the session
Construct ==
    /\ op = "start"
    /\ \E ds \in SpeciesLists(MaxDefects),
          es \in SeqsUpTo(Energies, MaxDefects),
          sc \in ScalingArgs,
          v \in Valences,
          sat \in SaturationParameters :
            LET r == SiteInit("O", 0, ds, es, sc, v, sat)
            IN  /\ op' = "Site"
                /\ args' = [defect_species |-> ds, defect_energies |-> es,
                            scaling |-> sc, valence |-> v,
                            saturation_parameter |-> sat]
                /\ result' = r
                /\ site' = IF r.kind = "ok" THEN r.val ELSE site
                /\ warnings' = <<>>

\* lists of defect_data entries with pairwise distinct labels
DefectDataLists(n) ==
    {s \in SeqsUpTo({DefectData(l, e) : l \in {"A", "B", "C"}, e \in Energies}, n) :
        UniqueLabels(s)}

\* site = Site.from_site_data(record, available_species), the first call of
\* the session
FromSiteData ==
    /\ op = "start"
    /\ \E dd \in DefectDataLists(MaxDefects),
          avail \in SpeciesLists(Cardinality(Catalog)),
          v \in Valences :
            LET r == from_site_data(SiteData("O", 0, v, dd), avail)
            IN  /\ op' = "from_site_data"
                /\ args' = [defect_data |-> dd, defect_species |-> avail,
                            valence |-> v]
                /\ result' = r
                /\ site' = IF r.kind = "ok" THEN r.val ELSE site
                /\ warnings' = <<>>

\* every session builds one Site and then makes one call on it: the calls
\* below leave the Site as it is, so a second call would see the same Site
Built == site # NoSite /\ op \in {"Site", "from_site_data"}

\* site.defect_with_label(label)
DefectWithLabel ==
    /\ Built
    /\ \E label \in {"A", "B", "C"} :
        /\ op' = "defect_with_label"
        /\ args' = [label |-> label]
        /\ result' = defect_with_label(site, label)
        /\ warnings' = <<>>
        /\ UNCHANGED site

\* site.probabilities(phi, temp)
Probabilities ==
    /\ Built
    /\ \E phi \in Phis, temp \in Temps :
        /\ WellPosed(site, phi, temp)
        /\ op' = "probabilities"
        /\ args' = [phi |-> phi, temp |-> temp]
        /\ result' = Ok(probabilities(site, phi, temp))
        /\ warnings' = <<>>
        /\ UNCHANGED site

\* site.mobile_defect_probabilities(phi, temp)
MobileDefectProbabilities ==
    /\ Built
    /\ \E phi \in Phis, temp \in Temps :
        /\ WellPosed(site, phi, temp)
        /\ op' = "mobile_defect_probabilities"
        /\ args' = [phi |-> phi, temp |-> temp]
        /\ result' = Ok(mobile_defect_probabilities(site, phi, temp))
        /\ warnings' = <<>>
        /\ UNCHANGED site

\* warnings.warn(..., DeprecationWarning) of probabilities_as_list
DeprecationNotice == <<"DeprecationWarning">>

\* site.probabilities_as_list(phi, temp)
ProbabilitiesAsList ==
    /\ Built
    /\ \E phi \in Phis, temp \in Temps :
        /\ WellPosed(site, phi, temp)
        /\ op' = "probabilities_as_list"
        /\ args' = [phi |-> phi, temp |-> temp]
        /\ result' = Ok(probabilities_as_list(site, phi, temp))
        /\ warnings' = DeprecationNotice
        /\ UNCHANGED site

\* site.charge(phi, temp)
Charge ==
    /\ Built
    /\ \E phi \in Phis, temp \in Temps :
        /\ WellPosed(site, phi, temp)
        /\ op' = "charge"
        /\ args' = [phi |-> phi, temp |-> temp]
        /\ result' = charge(site, phi, temp)
        /\ warnings' = <<>>
        /\ UNCHANGED site

\* site.charge_from_mobile_defects(phi, temp)
ChargeFromMobileDefects ==
    /\ Built
    /\ \E phi \in Phis, temp \in Temps :
        /\ WellPosed(site, phi, temp)
        /\ op' = "charge_from_mobile_defects"
        /\ args' = [phi |-> phi, temp |-> temp]
        /\ result' = charge_from_mobile_defects(site, phi, temp)
        /\ warnings' = <<>>
        /\ UNCHANGED site

Next ==
    \/ Construct
    \/ FromSiteData
    \/ DefectWithLabel
    \/ Probabilities
    \/ MobileDefectProbabilities
    \/ ProbabilitiesAsList
    \/ Charge
    \/ ChargeFromMobileDefects


Spec == Init /\ [][Next]_vars

---------------------------------------------------------------------------
(* src/project/practice.py *)

\* bisect.bisect_left(a, x, lo, hi) on a sorted list; indices count from 0
RECURSIVE Bisect(_, _, _, _)
Bisect(a, x, lo, hi) ==
    IF lo < hi
    THEN LET mid == (lo + hi) \div 2
         IN  IF a[mid + 1] < x THEN Bisect(a, x, mid + 1, hi)
             ELSE Bisect(a, x, lo, mid)
    ELSE lo

bisect_left(a, x) == Bisect(a, x, 0, Len(a))

\* closest_index(myList, myNumber); indices count from 0
closest_index(myList, myNumber) ==
    LET pos == bisect_left(myList, myNumber)
    IN  IF pos = 0 THEN 0
        ELSE IF pos = Len(myList) THEN Len(myList)
        ELSE LET before == myList[pos]
                 after == myList[pos + 1]
             IN  IF after - myNumber < myNumber - before THEN pos
                 ELSE pos - 1

index_of_grid_at_x(grid, x) == closest_index(grid, x)

\* phi[index] with index >= 0: the element, or the IndexError of a list
Subscript(list, index) ==
    IF index < Len(list) THEN Ok(list[index + 1]) ELSE Raise("IndexError")

phi_at_x(phi, grid, x) == Subscript(phi, index_of_grid_at_x(grid, x))

IsSorted(a) == \A i, j \in DOMAIN a : i < j => a[i] <= a[j]

\* the sorted grids the callers pass
Grids == {g \in SeqsUpTo(0..MaxVal, MaxLen) : IsSorted(g)}

\* the coordinates looked up: below, inside and above every grid
Numbers == (-1)..(MaxVal + 1)

\* closest_index(myList, myNumber)
ClosestIndex ==
    /\ op = "start"
    /\ \E myList \in Grids, myNumber \in Numbers :
        /\ op' = "closest_index"
        /\ args' = [myList |-> myList, myNumber |-> myNumber]
        /\ result' = Ok(closest_index(myList, myNumber))
        /\ warnings' = <<>>
        /\ UNCHANGED site

\* phi_at_x(phi, grid, x) with one potential per grid point
PhiAtX ==
    /\ op = "start"
    /\ \E grid \in Grids, x \in Numbers :
        \E phi \in [1..Len(grid) -> {0, 1}] :
            /\ op' = "phi_at_x"
            /\ args' = [phi |-> phi, grid |-> grid, x |-> x]
            /\ result' = phi_at_x(phi, grid, x)
            /\ warnings' = <<>>
            /\ UNCHANGED site

PracticeNext == ClosestIndex \/ PhiAtX

PracticeSpec == Init /\ [][PracticeNext]_vars

---------------------------------------------------------------------------
(* Properties of Site, checked under Spec *)

HasFixed(s) == s.fixed_defects # <<>>
HasMobile(s) == s.mobile_defects # <<>>

\* sum of probability * valence over the defects of s, read from mapping p
ValenceSum(p, defects) ==
    SumSeq([i \in DOMAIN defects |->
                RMul(p[defects[i].label], I(defects[i].valence))])

\* C1: charge(phi, temp) of a Site with at least one defect returns the
\* scalar fundamental_charge * scaling * (sum over all defects of
\* probability * valence + site valence): the site's own valence is scaled
\* together with the defect sum.
C1_ChargeScalesValence ==
    (op = "charge" /\ Len(site.defects) >= 1) =>
        /\ result.kind = "ok"
        /\ result.val =
             RMul(I(fundamental_charge * site.scaling[1]),
                  RAdd(ValenceSum(probabilities(site, args.phi, args.temp),
                                  site.defects),
                       I(site.valence)))

\* C2: on a Site with a fixed defect, charge_from_mobile_defects(phi, temp)
\* does not fail and returns fundamental_charge * scaling * (sum over the
\* mobile defects of mobile probability * valence).
C2_MobileChargeSkipsFixed ==
    (op = "charge_from_mobile_defects" /\ HasFixed(site)) =>
        /\ result.kind = "ok"
        /\ result.val =
             RMul(I(fundamental_charge * site.scaling[1]),
                  ValenceSum(mobile_defect_probabilities(site, args.phi, args.temp),
                             site.mobile_defects))

\* C3: in the mapping returned by probabilities(phi, temp), every fixed
\* defect, and every defect of a Site without mobile defects, has its bulk
\* mole_fraction, whatever phi and temp are.
C3_FixedProbabilityIsMoleFraction ==
    op = "probabilities" =>
        \A i \in DOMAIN site.defects :
            LET d == site.defects[i]
            IN  (IsFixed(d) \/ ~HasMobile(site)) =>
                    /\ d.label \in DOMAIN result.val
                    /\ result.val[d.label] = d.mole_fraction

\* C3 witness: probabilities was evaluated at a non-zero potential on a Site
\* that holds a fixed defect next to a mobile one.
C3_Witness ==
    /\ op = "probabilities"
    /\ HasFixed(site) /\ HasMobile(site)
    /\ args.phi # 0 /\ args.temp = 2

\* C4: probabilities_as_list(phi, temp) succeeds, emits a deprecation
\* notice, and returns one entry per element of Site.defects, the i-th
\* being probabilities(phi, temp)[defects[i].label].
C4_ListMatchesMapping ==
    op = "probabilities_as_list" =>
        /\ result.kind = "ok"
        /\ warnings = <<"DeprecationWarning">>
        /\ Len(result.val) = Len(site.defects)
        /\ \A i \in DOMAIN site.defects :
             result.val[i] =
                probabilities(site, args.phi, args.temp)[site.defects[i].label]

\* C4 witness: the list form was evaluated on a Site with two defects whose
\* probabilities differ.
C4_Witness ==
    /\ op = "probabilities_as_list"
    /\ Len(site.defects) >= 2
    /\ result.val[1] # result.val[2]

\* C5: construction fails, and no Site is created, exactly when
\* len(defect_species) # len(defect_energies) or a scaling argument is given
\* whose length differs from len(defect_species), the empty sequence
\* included.
C5_ConstructionValidatesLengths ==
    op = "Site" =>
        LET bad ==
              \/ Len(args.defect_species) # Len(args.defect_energies)
              \/ /\ args.scaling.given
                 /\ Len(args.scaling.vals) # Len(args.defect_species)
        IN  /\ bad <=> result.kind = "raise"
            /\ bad => site = NoSite

\* C6: defect_with_label(label) raises LabelError when no element of
\* Site.defects has the label, otherwise returns that very element of
\* Site.defects (same identity); the call leaves the Site unchanged.
C6_LookupReturnsInstance ==
    [][ op' = "defect_with_label" =>
            /\ site' = site
            /\ IF \E i \in DOMAIN site.defects : site.defects[i].label = args'.label
               THEN /\ result'.kind = "ok"
                    /\ result'.val.label = args'.label
                    /\ \E i \in DOMAIN site.defects : site.defects[i] = result'.val
               ELSE result' = Raise("LabelError") ]_vars

\* C6 witness: a known label was looked up on a Site with two defects and
\* the second instance came back.
C6_Witness ==
    /\ op = "defect_with_label"
    /\ result.kind = "ok"
    /\ Len(site.defects) = 2
    /\ result.val.id = 2

\* labels carried by a list of labelled objects
LabelSet(s) == {s[i].label : i \in DOMAIN s}

\* C7: from_site_data fails exactly when the record names a label that no
\* available species carries; otherwise the new Site's defects are exactly
\* the available species whose labels appear in the record.
C7_FromSiteDataFilters ==
    op = "from_site_data" =>
        LET recordLabels == LabelSet(args.defect_data)
            availLabels == LabelSet(args.defect_species)
            missing == ~(recordLabels \subseteq availLabels)
        IN  /\ missing <=> result.kind = "raise"
            /\ missing => site = NoSite
            /\ ~missing =>
                /\ site = result.val
                /\ LabelSet(site.defects) = recordLabels
                /\ Len(site.defects) = Cardinality(recordLabels)
                /\ \A i \in DOMAIN site.defects :
                     \E sp \in Range(args.defect_species) :
                        /\ sp.label = site.defects[i].label
                        /\ sp.valence = site.defects[i].valence
                        /\ sp.mole_fraction = site.defects[i].mole_fraction
                        /\ sp.mobility = site.defects[i].mobility
                        /\ sp.can_equilibrate = site.defects[i].can_equilibrate

\* C7 witness: from_site_data succeeded although one available species is
\* not named by the record.
C7_Witness ==
    /\ op = "from_site_data"
    /\ result.kind = "ok"
    /\ Len(site.defects) >= 1
    /\ ~(LabelSet(args.defect_species) \subseteq LabelSet(args.defect_data))

\* the mobile defects of s other than d all have Boltzmann factor 1
OthersNeutral(s, d, phi, temp) ==
    \A j \in DOMAIN s.mobile_defects :
        s.mobile_defects[j].id # d.id =>
            boltzmann_factor(s.mobile_defects[j], phi, temp) = I(1)

C10_EnergiesPairedByLabel ==
    (op = "from_site_data" /\ result.kind = "ok") =>
        \A i \in DOMAIN site.defects :
            \E k \in DOMAIN args.defect_data :
                /\ args.defect_data[k].label = site.defects[i].label
                /\ args.defect_data[k].energy = site.defects[i].energy

---------------------------------------------------------------------------
(* Properties of practice.py, checked under PracticeSpec *)

Dist(a, b) == Abs(a - b)

\* C9: on a sorted non-empty list closest_index returns a valid index of a
\* value closest to myNumber, the smaller one on a tie; hence phi_at_x never
\* indexes outside phi when len(phi) = len(grid).
C9_ClosestIndexInRange ==
    /\ (op = "closest_index" /\ Len(args.myList) >= 1) =>
          LET l == args.myList
              x == args.myNumber
              r == result.val
          IN  /\ r \in 0..(Len(l) - 1)
              /\ \A j \in DOMAIN l : Dist(l[r + 1], x) <= Dist(l[j], x)
              /\ \A j \in DOMAIN l :
                    Dist(l[j], x) = Dist(l[r + 1], x) => l[r + 1] <= l[j]
    /\ (op = "phi_at_x" /\ Len(args.grid) >= 1) => result.kind = "ok"

=============================================================================
